---- MODULE Spec2Model ----
(***************************************************************************)
(* Model of the feed normalisation pipeline (rss.py) and of its HTTP       *)
(* adapter (app.py).  The program keeps no state between calls, so the     *)
(* state of the model is the last call made, its arguments and its         *)
(* outcome, together with the collaborators the call contacted.            *)
(*                                                                         *)
(* Strings are run-length encoded: a string is a sequence of runs          *)
(* [c |-> symbol, n |-> count], adjacent runs having different symbols,    *)
(* so that texts longer than the 160 character limit can be enumerated.    *)
(* The symbol " " is whitespace and "." is the period; any other symbol    *)
(* stands for one ordinary character.                                      *)
(***************************************************************************)
EXTENDS Integers, Sequences, FiniteSets, TLC

VARIABLES op, arg, res, parseCalls, upstreamCalls

vars == <<op, arg, res, parseCalls, upstreamCalls>>

----------------------------------------------------------------------------
(* Program constants *)

MAX_ITEMS == 100
SubtitleMax == 160
SubtitleCut == 157
PromptEntries == 15

(* Bounds of the model *)

\* runs per enumerated string
MaxRuns == 3
\* entries a feed may have beyond MAX_ITEMS
MaxExtra == 2
\* entries of the small feeds
MaxSmall == 2

----------------------------------------------------------------------------
(* Strings *)

Run(c, n) == [c |-> c, n |-> n]

Str1(c) == <<Run(c, 1)>>

RECURSIVE StrLen(_)
StrLen(s) == IF s = <<>> THEN 0 ELSE Head(s).n + StrLen(Tail(s))

\* concatenation, keeping the encoding canonical
Cat(s, t) ==
  IF s = <<>> THEN t
  ELSE IF t = <<>> THEN s
  ELSE IF s[Len(s)].c = t[1].c
       THEN SubSeq(s, 1, Len(s) - 1) \o <<Run(t[1].c, s[Len(s)].n + t[1].n)>> \o Tail(t)
       ELSE s \o t

IsSpace(c) == c = " "

RECURSIVE LStrip(_)
LStrip(s) ==
  IF s = <<>> THEN <<>>
  ELSE IF IsSpace(Head(s).c) THEN LStrip(Tail(s)) ELSE s

RECURSIVE RStrip(_)
RStrip(s) ==
  IF s = <<>> THEN <<>>
  ELSE IF IsSpace(s[Len(s)].c) THEN RStrip(SubSeq(s, 1, Len(s) - 1)) ELSE s

\* str.strip()
Strip(s) == RStrip(LStrip(s))

\* s[:k]
RECURSIVE Take(_, _)
Take(s, k) ==
  IF k <= 0 \/ s = <<>> THEN <<>>
  ELSE IF Head(s).n <= k
       THEN <<Head(s)>> \o Take(Tail(s), k - Head(s).n)
       ELSE <<Run(Head(s).c, k)>>

\* str.startswith(word) for a one-symbol word
StartsWith(s, c) == s # <<>> /\ s[1].c = c

\* re.split(r'(?<=\.)\s+', s)[0]: the text before the first whitespace
\* that follows a period
FirstSentence(s) ==
  LET cuts == {i \in 1..(Len(s) - 1) : s[i].c = "." /\ IsSpace(s[i + 1].c)}
  IN  IF cuts = {} THEN s
      ELSE SubSeq(s, 1, CHOOSE i \in cuts : \A j \in cuts : i <= j)

\* the literal appended at rss.py:110; it is three characters long in the source
Marker == <<Run("U+00E2", 1), Run("U+20AC", 1), Run("U+00A6", 1)>>

----------------------------------------------------------------------------
(* Python values *)

\* an optional string: None, or a str
None == [k |-> "none", s |-> <<>>]
S(s) == [k |-> "str", s |-> s]
\* a truthy value that is not a str (a number)
Other == [k |-> "other", s |-> <<>>]
\* a URL, held as one symbol
Url(name) == S(Str1(name))

Truthy(v) == v.k = "other" \/ (v.k = "str" /\ v.s # <<>>)

\* outcomes of a call: a value, or an exception
Ok(v) == [exc |-> "none", v |-> v]
Raise(e) == [exc |-> e, v |-> None]

\* (v or '').strip()
OrEmptyStrip(v) ==
  IF ~Truthy(v) THEN Ok(S(<<>>))
  ELSE IF v.k = "str" THEN Ok(S(Strip(v.s)))
  ELSE Raise("AttributeError")

----------------------------------------------------------------------------
(* HTML fragments: a sequence of nodes, either a text node or an <img> *)

TextNode(s) == [t |-> "text", s |-> s, src |-> None]
ImgNode(src) == [t |-> "img", s |-> <<>>, src |-> src]

NoHtml == [k |-> "none", h |-> <<>>]
Html(h) == [k |-> "str", h |-> h]

HtmlTruthy(v) == v.k = "str" /\ v.h # <<>>

\* BeautifulSoup.get_text(separator=' ', strip=True)
RECURSIVE GetText(_)
GetText(h) ==
  IF h = <<>> THEN <<>>
  ELSE LET rest == GetText(Tail(h))
           here == IF Head(h).t = "text" THEN Strip(Head(h).s) ELSE <<>>
       IN  IF here = <<>> THEN rest
           ELSE IF rest = <<>> THEN here
           ELSE Cat(Cat(here, Str1(" ")), rest)

_extract_plain_text(html) ==
  IF ~HtmlTruthy(html) THEN <<>> ELSE GetText(html.h)

\* soup.find('img') followed by image_tag.get('src'): the src of the first
\* <img>, when it has a non-empty one
FirstImgSrc(h) ==
  LET imgs == {i \in 1..Len(h) : h[i].t = "img"}
  IN  IF imgs = {} THEN None
      ELSE LET first == h[CHOOSE i \in imgs : \A j \in imgs : i <= j]
           IN  IF Truthy(first.src) THEN first.src ELSE None

----------------------------------------------------------------------------
(* Raw entries: the fields of a parsed entry the normaliser reads.         *)
(* entry.get(key) does not tell an absent key from a None value, so both   *)
(* are None here; only 'source' is tested with "in".                       *)

\* an item of media_content / media_thumbnail
MediaItem(url, href) == [k |-> "dict", url |-> url, href |-> href]
NonDictItem == [k |-> "other", url |-> None, href |-> None]

\* an item of links; type.k is "absent" (key missing), "none", "str" or "other"
AbsentType == [k |-> "absent", s |-> <<>>]
LinkItem(type, href) == [k |-> "dict", type |-> type, href |-> href]
NonDictLink == [k |-> "other", type |-> AbsentType, href |-> None]

\* a list-valued field: absent/None, a list, or a number
NoList == [k |-> "none", items |-> <<>>]
List(items) == [k |-> "list", items |-> items]
NotAList == [k |-> "other", items |-> <<>>]

\* a mapping-valued field with one key read from it
NoSource == [k |-> "absent", title |-> None]
SourceDict(title) == [k |-> "dict", title |-> title]
SourceOther == [k |-> "other", title |-> None]

NoDetail == [k |-> "absent", value |-> NoHtml]
DetailDict(value) == [k |-> "dict", value |-> value]
DetailOther == [k |-> "other", value |-> NoHtml]

\* a parsed time: None, a struct_time with tm_* components, or a truthy value
\* without them (a plain tuple); "wide" says that tm_year does not fit a C int
NoTime ==
  [k |-> "none", y |-> 0, mo |-> 0, d |-> 0, h |-> 0, mi |-> 0, sec |-> 0, wide |-> FALSE]
StructTime(y, mo, d, h, mi, sec) ==
  [k |-> "struct", y |-> y, mo |-> mo, d |-> d, h |-> h, mi |-> mi, sec |-> sec,
   wide |-> FALSE]
WideYear ==
  [k |-> "struct", y |-> 0, mo |-> 1, d |-> 1, h |-> 0, mi |-> 0, sec |-> 0, wide |-> TRUE]
BareTuple ==
  [k |-> "bare", y |-> 0, mo |-> 0, d |-> 0, h |-> 0, mi |-> 0, sec |-> 0, wide |-> FALSE]

EmptyEntry ==
  [title |-> None, link |-> None, summary |-> NoHtml, description |-> NoHtml,
   published_parsed |-> NoTime, updated_parsed |-> NoTime, source |-> NoSource,
   media_content |-> NoList, media_thumbnail |-> NoList, links |-> NoList,
   summary_detail |-> NoDetail, subtitle |-> NoHtml]

----------------------------------------------------------------------------
(* _extract_image *)

\* the loop over media_content / media_thumbnail: the first item that is a
\* mapping and whose url (or else href) is non-empty
RECURSIVE MediaScan(_)
MediaScan(items) ==
  IF items = <<>> THEN None
  ELSE LET item == Head(items)
           url == IF Truthy(item.url) THEN item.url ELSE item.href
       IN  IF item.k = "dict" /\ Truthy(url) THEN url ELSE MediaScan(Tail(items))

MediaTier(field) == IF field.k = "list" THEN MediaScan(field.items) ELSE None

\* the loop over links: link.get('type', '').startswith('image') raises on a
\* type that is present but not a str
RECURSIVE LinksScan(_)
LinksScan(items) ==
  IF items = <<>> THEN Ok(None)
  ELSE LET link == Head(items)
       IN  IF link.k # "dict" THEN LinksScan(Tail(items))
           ELSE IF link.type.k \in {"none", "other"} THEN Raise("AttributeError")
           ELSE IF StartsWith(link.type.s, "image") /\ Truthy(link.href)
                THEN Ok(link.href)
                ELSE LinksScan(Tail(items))

\* for link in entry.get('links', []) or []
LinksTier(field) ==
  IF field.k = "other" THEN Raise("TypeError")
  ELSE IF field.k = "none" THEN Ok(None)
  ELSE LinksScan(field.items)

DetailTier(entry) ==
  IF entry.summary_detail.k = "dict" /\ HtmlTruthy(entry.summary_detail.value)
  THEN FirstImgSrc(entry.summary_detail.value.h)
  ELSE None

\* entry.get('summary') or entry.get('description')
SummaryHtml(entry) ==
  IF HtmlTruthy(entry.summary) THEN entry.summary ELSE entry.description

SummaryTier(entry) ==
  IF HtmlTruthy(SummaryHtml(entry)) THEN FirstImgSrc(SummaryHtml(entry).h) ELSE None

_extract_image(entry) ==
  LET t1 == MediaTier(entry.media_content)
      t2 == MediaTier(entry.media_thumbnail)
      t3 == LinksTier(entry.links)
      t4 == DetailTier(entry)
      t5 == SummaryTier(entry)
  IN  IF Truthy(t1) THEN Ok(t1)
      ELSE IF Truthy(t2) THEN Ok(t2)
      ELSE IF t3.exc # "none" THEN t3
      ELSE IF Truthy(t3.v) THEN t3
      ELSE IF Truthy(t4) THEN Ok(t4)
      ELSE IF Truthy(t5) THEN Ok(t5)
      ELSE Ok(None)

----------------------------------------------------------------------------
(* _derive_subtitle *)

\* lines 106-111: first sentence, trimmed, cut to the limit
Shorten(candidate) ==
  LET trimmed == Strip(FirstSentence(candidate))
  IN  IF StrLen(trimmed) > SubtitleMax
      THEN S(Cat(RStrip(Take(trimmed, SubtitleCut)), Marker))
      ELSE IF trimmed = <<>> THEN None ELSE S(trimmed)

_derive_subtitle(entry, summary_text) ==
  IF HtmlTruthy(entry.subtitle) THEN S(_extract_plain_text(entry.subtitle))
  ELSE LET detail == entry.summary_detail
           detail_text == IF detail.k = "dict" /\ HtmlTruthy(detail.value)
                          THEN _extract_plain_text(detail.value) ELSE <<>>
           candidate == IF detail_text # <<>> THEN detail_text ELSE summary_text
       IN  IF candidate = <<>> THEN None ELSE Shorten(candidate)

----------------------------------------------------------------------------
(* _format_datetime *)

IsLeap(y) == (y % 4 = 0 /\ y % 100 # 0) \/ y % 400 = 0

DaysInMonth(y, mo) ==
  IF mo = 2 THEN (IF IsLeap(y) THEN 29 ELSE 28)
  ELSE IF mo \in {4, 6, 9, 11} THEN 30 ELSE 31

\* the range checks of datetime(...)
ValidDate(t) ==
  /\ ~t.wide
  /\ t.y \in 1..9999
  /\ t.mo \in 1..12
  /\ t.d >= 1 /\ t.d <= DaysInMonth(t.y, t.mo)
  /\ t.h \in 0..23
  /\ t.mi \in 0..59
  /\ t.sec \in 0..59

Digits == <<"0", "1", "2", "3", "4", "5", "6", "7", "8", "9">>

\* n written in decimal, zero-padded to w digits
RECURSIVE Pad(_, _)
Pad(n, w) == IF w = 0 THEN <<>> ELSE Cat(Pad(n \div 10, w - 1), Str1(Digits[(n % 10) + 1]))

\* datetime.isoformat() of a datetime without microseconds
IsoFormat(t) ==
  Cat(Pad(t.y, 4), Cat(Str1("-"), Cat(Pad(t.mo, 2), Cat(Str1("-"), Cat(Pad(t.d, 2),
  Cat(Str1("T"), Cat(Pad(t.h, 2), Cat(Str1(":"), Cat(Pad(t.mi, 2), Cat(Str1(":"),
  Pad(t.sec, 2)))))))))))

_format_datetime(t) ==
  IF t.k = "none" THEN Ok(None)
  ELSE IF t.k = "bare" THEN Raise("AttributeError")
  ELSE IF t.wide THEN Raise("OverflowError")
  ELSE IF ValidDate(t) THEN Ok(S(IsoFormat(t)))
  ELSE Ok(None)

----------------------------------------------------------------------------
(* urlparse(link).netloc, on links written as symbol sequences: an optional *)
(* scheme symbol (ending in ":"), then "//", then the network location up   *)
(* to the first "/" symbol.  A "[" without "]" in the network location      *)
(* raises ValueError (Invalid IPv6 URL).                                    *)

Schemes == {"https:", "http:"}

\* the runs of s before the first run of symbol c
RECURSIVE Before(_, _)
Before(s, c) ==
  IF s = <<>> \/ Head(s).c = c THEN <<>> ELSE <<Head(s)>> \o Before(Tail(s), c)

HasSym(s, c) == \E i \in 1..Len(s) : s[i].c = c

Netloc(link) ==
  LET rest == IF link # <<>> /\ link[1].c \in Schemes /\ link[1].n = 1
              THEN Tail(link) ELSE link
      loc == IF StartsWith(rest, "//") /\ rest[1].n = 1
             THEN Before(Tail(rest), "/") ELSE <<>>
  IN  IF HasSym(loc, "[") # HasSym(loc, "]") THEN Raise("ValueError")
      ELSE Ok(S(loc))

----------------------------------------------------------------------------
(* _normalize_entry *)

FeedEntry(title, summary, link, published, source, subtitle, image) ==
  [title |-> title, summary |-> summary, link |-> link, published |-> published,
   source |-> source, subtitle |-> subtitle, image |-> image]

NoEntry == FeedEntry(<<>>, <<>>, <<>>, None, None, None, None)

Returned(e) == [exc |-> "none", entry |-> e]
Raised(x) == [exc |-> x, entry |-> NoEntry]

\* lines 140-142: the title of a nested source mapping
SourceTitle(entry) ==
  IF entry.source.k # "dict" THEN Ok(None)
  ELSE LET r == OrEmptyStrip(entry.source.title)
       IN  IF r.exc # "none" THEN r
           ELSE IF r.v.s = <<>> THEN Ok(None) ELSE r

\* lines 144-147: fall back to the link's network location
SourceOf(explicit, link) ==
  IF ~Truthy(explicit) /\ link # <<>>
  THEN LET n == Netloc(link)
       IN  IF n.exc # "none" THEN n
           ELSE IF n.v.s # <<>> THEN n ELSE Ok(explicit)
  ELSE Ok(explicit)

_normalize_entry(entry) ==
  LET title == OrEmptyStrip(entry.title)
      link == OrEmptyStrip(entry.link)
      summary == _extract_plain_text(SummaryHtml(entry))
      time == IF entry.published_parsed.k # "none"
              THEN entry.published_parsed ELSE entry.updated_parsed
      published == _format_datetime(time)
      explicit == SourceTitle(entry)
      source == SourceOf(explicit.v, link.v.s)
      image == _extract_image(entry)
      subtitle == _derive_subtitle(entry, summary)
  IN  IF title.exc # "none" THEN Raised(title.exc)
      ELSE IF link.exc # "none" THEN Raised(link.exc)
      ELSE IF published.exc # "none" THEN Raised(published.exc)
      ELSE IF explicit.exc # "none" THEN Raised(explicit.exc)
      ELSE IF source.exc # "none" THEN Raised(source.exc)
      ELSE IF image.exc # "none" THEN Raised(image.exc)
      ELSE Returned(FeedEntry(title.v.s, summary, link.v.s, published.v, source.v,
                              subtitle, image.v))

----------------------------------------------------------------------------
(* fetch_feed *)

\* a limit argument: None, a value that is not a number (a str), an int, or a
\* float; numbers are held in tenths, and nan, inf and -inf are floats too
NoLimit == [k |-> "none", t |-> 0]
StrLimit == [k |-> "str", t |-> 0]
IntLimit(n) == [k |-> "int", t |-> 10 * n]
FloatLimit(tenths) == [k |-> "float", t |-> tenths]
NanLimit == [k |-> "nan", t |-> 0]
InfLimit == [k |-> "inf", t |-> 0]
NegInfLimit == [k |-> "-inf", t |-> 0]

Min(a, b) == IF a <= b THEN a ELSE b

\* lines 173-178; int() of a float truncates, and raises on nan and inf
EffectiveLimit(limit) ==
  IF limit.k \in {"none", "str"} THEN [exc |-> "none", n |-> MAX_ITEMS]
  ELSE IF limit.k = "-inf" THEN [exc |-> "none", n |-> MAX_ITEMS]
  ELSE IF limit.k = "nan" THEN [exc |-> "ValueError", n |-> 0]
  ELSE IF limit.k = "inf" THEN [exc |-> "OverflowError", n |-> 0]
  ELSE IF limit.t <= 0 THEN [exc |-> "none", n |-> MAX_ITEMS]
  ELSE [exc |-> "none", n |-> Min(limit.t \div 10, MAX_ITEMS)]

\* the first story of tests/test_rss.py, and two more
Story(title, path, hour) ==
  [EmptyEntry EXCEPT
     !.title = S(Str1(title)),
     !.link = S(<<Run("https:", 1), Run("//", 1), Run("example.com", 1), Run(path, 1)>>),
     !.summary = Html(<<TextNode(<<Run("Summary", 1), Run(" ", 1)>>),
                        TextNode(Str1("content")), TextNode(Str1(".")),
                        ImgNode(Url("https://example.com/image.jpg"))>>),
     !.published_parsed = StructTime(2024, 7, 4, hour, 30, 0)]

GoodEntries ==
  <<[Story("Breaking Story", "/story", 10) EXCEPT !.source = SourceDict(S(Str1("Example Source")))],
    Story("Ignored Story", "/ignored", 11),
    [EmptyEntry EXCEPT !.title = S(Str1("Third Story"))]>>

\* an entry whose title is a number
BadEntry == [EmptyEntry EXCEPT !.title = Other]

\* what feedparser.parse(url) returned: the bozo flag and exception, the feed
\* mapping, and n entries, of which entry number bad (if any) is malformed
Parsed(bozo, cause, feed, n, bad) ==
  [bozo |-> bozo, cause |-> cause, feed |-> feed, n |-> n, bad |-> bad]

NoCause == [k |-> "none", msg |-> <<>>]
Cause(msg) == [k |-> "exc", msg |-> msg]

NoFeedMeta == [k |-> "empty", title |-> None, link |-> None]
FeedMeta(title, link) == [k |-> "dict", title |-> title, link |-> link]

\* parsed.entries[i]
RawEntry(parsed, i) ==
  IF i = parsed.bad THEN BadEntry
  ELSE GoodEntries[((i - 1) % Len(GoodEntries)) + 1]

DEFAULT_FEED_URL == Str1("https://rss.feedspot.com/u/72252f9f2933826fe9d1a2da83d6122c/rss/rsscombiner")

ParseErrorPrefix == Str1("Unable to parse feed: ")

FeedResult(title, link, entries) ==
  [exc |-> "none", msg |-> <<>>, feed_title |-> title, feed_link |-> link,
   entries |-> entries]

FeedFailure(exc, msg) ==
  [exc |-> exc, msg |-> msg, feed_title |-> <<>>, feed_link |-> <<>>, entries |-> <<>>]

\* lines 180-185: the list comprehension stops at the first entry whose
\* normalization raises; otherwise the result holds every normalized entry
Collected(feed_title, feed_link, normalized) ==
  LET failed == {i \in DOMAIN normalized : normalized[i].exc # "none"}
  IN  IF failed # {}
      THEN FeedFailure(normalized[CHOOSE i \in failed : \A j \in failed : i <= j].exc,
                       <<>>)
      ELSE FeedResult(feed_title, feed_link,
                      [i \in DOMAIN normalized |-> normalized[i].entry])

\* lines 173-185: the entries up to the effective limit, normalized in order
Limited(feed_title, feed_link, parsed, effective_limit) ==
  IF effective_limit.exc # "none" THEN FeedFailure(effective_limit.exc, <<>>)
  ELSE Collected(feed_title, feed_link,
                 [i \in 1..Min(parsed.n, effective_limit.n) |->
                    _normalize_entry(RawEntry(parsed, i))])

\* fetch_feed(feed_url, limit=limit), feedparser.parse(url) having returned parsed
fetch_feed(feed_url, limit, parsed) ==
  LET url == Strip(IF Truthy(feed_url) THEN feed_url.s ELSE DEFAULT_FEED_URL)
      feed_title == IF parsed.feed.k = "dict" /\ Truthy(parsed.feed.title)
                    THEN parsed.feed.title.s ELSE Str1("RSS Feed")
      feed_link == IF parsed.feed.k = "dict" /\ Truthy(parsed.feed.link)
                   THEN parsed.feed.link.s ELSE url
  IN  IF parsed.bozo /\ parsed.cause.k = "exc"
      THEN FeedFailure("ValueError", Cat(ParseErrorPrefix, parsed.cause.msg))
      ELSE Limited(feed_title, feed_link, parsed, EffectiveLimit(limit))

----------------------------------------------------------------------------
(* app.py: POST /api/feed *)

\* the values of CURATED_FEEDS
CuratedMeta(name, description, url) ==
  [known |-> TRUE, name |-> name, description |-> description, url |-> url]

NoMeta == [known |-> FALSE, name |-> <<>>, description |-> <<>>, url |-> <<>>]

\* a lookup that falls back to the front page for a slug it does not know
CuratedFeedOrDefault(category) ==
  IF category = Str1("business")
  THEN CuratedMeta(Str1("Business Ledger"),
                   Str1("Market movers, finance news, and boardroom shifts."),
                   Str1("https://rss.feedspot.com/folder/4BnLtF8d5g==/rss/rsscombiner"))
  ELSE IF category = Str1("science")
  THEN CuratedMeta(Str1("Science Dispatch"),
                   Str1("Discoveries across biology, research, and innovation."),
                   Str1("https://rss.feedspot.com/folder/5hnLtWAh7A==/rss/rsscombiner"))
  ELSE CuratedMeta(Str1("Front Page"),
                   Str1("Morning digest of the most relevant headlines."),
                   DEFAULT_FEED_URL)

\* CURATED_FEEDS.get(category)
CuratedFeed(category) ==
  IF category = Str1("top-stories")
  THEN CuratedMeta(Str1("Front Page"),
                   Str1("Morning digest of the most relevant headlines."),
                   DEFAULT_FEED_URL)
  ELSE IF category = Str1("business")
  THEN CuratedMeta(Str1("Business Ledger"),
                   Str1("Market movers, finance news, and boardroom shifts."),
                   Str1("https://rss.feedspot.com/folder/4BnLtF8d5g==/rss/rsscombiner"))
  ELSE IF category = Str1("science")
  THEN CuratedMeta(Str1("Science Dispatch"),
                   Str1("Discoveries across biology, research, and innovation."),
                   Str1("https://rss.feedspot.com/folder/5hnLtWAh7A==/rss/rsscombiner"))
  ELSE NoMeta

\* str.lower(), symbol by symbol
LowerSym(c) ==
  IF c = "Business" \/ c = "BUSINESS" THEN "business"
  ELSE IF c = "Science" THEN "science"
  ELSE IF c = "Top-Stories" THEN "top-stories"
  ELSE c

RECURSIVE Lower(_)
Lower(s) ==
  IF s = <<>> THEN <<>>
  ELSE Cat(<<Run(LowerSym(Head(s).c), Head(s).n)>>, Lower(Tail(s)))

\* str(payload.get('category') or 'top-stories').strip().lower(); a number is
\* written in decimal
Category(raw) ==
  Lower(Strip(IF ~Truthy(raw) THEN Str1("top-stories")
              ELSE IF raw.k = "str" THEN raw.s
              ELSE Str1("123")))

\* a JSON value given as limit: absent or null, a string, an int, a float (in
\* tenths; nan and inf as Python's json reads them), or a list
NoRaw == [k |-> "none", t |-> 0, s |-> <<>>]
StrRaw(s) == [k |-> "str", t |-> 0, s |-> s]
IntRaw(n) == [k |-> "int", t |-> 10 * n, s |-> <<>>]
FloatRaw(tenths) == [k |-> "float", t |-> tenths, s |-> <<>>]
NanRaw == [k |-> "nan", t |-> 0, s |-> <<>>]
InfRaw == [k |-> "inf", t |-> 0, s |-> <<>>]
ListRaw == [k |-> "other", t |-> 0, s |-> <<>>]

IsDigit(c) == \E v \in 0..9 : Digits[v + 1] = c

DigitValue(c) == CHOOSE v \in 0..9 : Digits[v + 1] = c

\* the number written by the digits cs[i..j]
RECURSIVE Number(_, _, _)
Number(cs, i, j) ==
  IF j < i THEN 0 ELSE 10 * Number(cs, i, j - 1) + DigitValue(cs[j])

\* the characters of a string, one symbol each
RECURSIVE Expand(_)
Expand(s) ==
  IF s = <<>> THEN <<>>
  ELSE IF Head(s).n = 1 THEN <<Head(s).c>> \o Expand(Tail(s))
  ELSE <<Head(s).c>> \o Expand(<<Run(Head(s).c, Head(s).n - 1)>> \o Tail(s))

\* int(text): surrounding whitespace and a sign are allowed, then digits only
IntOfStr(text) ==
  LET cs == Expand(Strip(text))
      signed == cs # <<>> /\ cs[1] \in {"-", "+"}
      ds == IF signed THEN Tail(cs) ELSE cs
  IN  IF ds = <<>> \/ \E i \in 1..Len(ds) : ~IsDigit(ds[i])
      THEN [exc |-> "ValueError", n |-> 0]
      ELSE [exc |-> "none",
            n |-> IF signed /\ cs[1] = "-" THEN -Number(ds, 1, Len(ds))
                  ELSE Number(ds, 1, Len(ds))]

\* int(limit_raw), lines 79-83: None when the value is no str, int or float or
\* when int() raises ValueError; OverflowError (inf) is not caught
LimitOf(limit_raw) ==
  IF limit_raw.k \in {"none", "other", "nan"} THEN [exc |-> "none", limit |-> NoLimit]
  ELSE IF limit_raw.k = "inf" THEN [exc |-> "OverflowError", limit |-> NoLimit]
  ELSE IF limit_raw.k = "int" THEN [exc |-> "none", limit |-> IntLimit(limit_raw.t \div 10)]
  ELSE IF limit_raw.k = "float"
  THEN [exc |-> "none",
        limit |-> IntLimit(IF limit_raw.t < 0 THEN -((-limit_raw.t) \div 10)
                           ELSE limit_raw.t \div 10)]
  ELSE LET r == IntOfStr(limit_raw.s)
       IN  [exc |-> "none", limit |-> IF r.exc = "none" THEN IntLimit(r.n) ELSE NoLimit]

\* the body of a request: no JSON (or a falsy value), an object, or a list
NoPayload == [k |-> "none", category |-> None, limit |-> NoRaw]
FeedRequest(category, limit) == [k |-> "dict", category |-> category, limit |-> limit]
ListPayload == [k |-> "list", category |-> None, limit |-> NoRaw]

ErrorResponse(status, error) == [status |-> status, kind |-> "error", error |-> error]
\* an exception leaves the handler: the framework answers 500
Unhandled(exc) == [status |-> 500, kind |-> "unhandled", error |-> Str1(exc)]

\* _serialize_feed
_serialize_feed(feed_result, category, feed_meta) ==
  [feedTitle |-> feed_result.feed_title, feedLink |-> feed_result.feed_link,
   entries |-> feed_result.entries, category |-> category,
   categoryName |-> feed_meta.name, categoryDescription |-> feed_meta.description]

\* str(exc): the message of a parse failure, or the text of another exception
ExcText(failure) ==
  IF failure.msg # <<>> THEN failure.msg ELSE Str1(failure.exc)

\* lines 85-90: the answer to a fetch that raised, or to one that returned
FeedResponse(feed_result, category, feed_meta) ==
  IF feed_result.exc # "none"
  THEN ErrorResponse(400, ExcText(feed_result))
  ELSE [status |-> 200, kind |-> "feed", error |-> <<>>,
        body |-> _serialize_feed(feed_result, category, feed_meta)]

\* api_feed; fetched says whether fetch_feed was called
api_feed(payload, parsed) ==
  LET category == Category(payload.category)
      feed_meta == CuratedFeed(category)
      feed_url == IF feed_meta.url # <<>> THEN feed_meta.url ELSE DEFAULT_FEED_URL
      limit == LimitOf(payload.limit)
  IN  IF payload.k = "list"
      THEN [fetched |-> FALSE, response |-> Unhandled("AttributeError")]
      ELSE IF ~feed_meta.known
      THEN [fetched |-> FALSE,
            response |-> ErrorResponse(400, Str1("Unknown feed category."))]
      ELSE IF limit.exc # "none"
      THEN [fetched |-> FALSE, response |-> Unhandled(limit.exc)]
      ELSE [fetched |-> TRUE,
            response |-> FeedResponse(fetch_feed(S(feed_url), limit.limit, parsed),
                                      category, feed_meta)]

----------------------------------------------------------------------------
(* app.py: POST /api/analyze *)

\* the feed given for analysis: absent, an object, or another JSON value; its
\* entries are n mappings, of which entry number bad (if any) is a str
NoAnalysisFeed == [k |-> "none", n |-> 0, bad |-> 0]
AnalysisFeed(n, bad) == [k |-> "dict", n |-> n, bad |-> bad]
OtherAnalysisFeed == [k |-> "other", n |-> 0, bad |-> 0]

\* _build_prompt reads entries[:15]; entry.get raises on an entry that is no
\* mapping
_build_prompt(feed) ==
  IF feed.bad \in 1..Min(feed.n, PromptEntries)
  THEN [exc |-> "AttributeError", stories |-> 0]
  ELSE [exc |-> "none", stories |-> Min(feed.n, PromptEntries)]

\* the first element of choices: a mapping with an optional message (absent,
\* null or a mapping with an optional content) and an optional text
AbsentVal == [k |-> "absent", s |-> <<>>]
NoMessage == [k |-> "absent", content |-> AbsentVal]
NullMessage == [k |-> "none", content |-> AbsentVal]
Message(content) == [k |-> "dict", content |-> content]
Choice(message, text) == [k |-> "dict", message |-> message, text |-> text]
NonDictChoice == [k |-> "other", message |-> NoMessage, text |-> None]

\* the JSON of the upstream reply: an object with optional choices (absent,
\* null or a list) and optional usage, or an array, or no JSON at all
Reply(choices, usage) == [k |-> "dict", choices |-> choices, usage |-> usage]
ArrayReply == [k |-> "list", choices |-> NoList, usage |-> FALSE]
NotJson == [k |-> "notjson", choices |-> NoList, usage |-> FALSE]
AbsentChoices == [k |-> "absent", items |-> <<>>]

\* the outcome of requests.post and raise_for_status
TransportError == [k |-> "error", data |-> NotJson]
HttpError == [k |-> "status", data |-> NotJson]
Replied(data) == [k |-> "reply", data |-> data]

\* line 150: data['choices'][0]['message']['content'].strip()
Content(data) ==
  IF data.choices.k = "absent" THEN Raise("KeyError")
  ELSE IF data.choices.k = "none" THEN Raise("TypeError")
  ELSE IF data.choices.items = <<>> THEN Raise("IndexError")
  ELSE LET choice == data.choices.items[1]
       IN  IF choice.k # "dict" THEN Raise("TypeError")
           ELSE IF choice.message.k = "absent" THEN Raise("KeyError")
           ELSE IF choice.message.k = "none" THEN Raise("TypeError")
           ELSE IF choice.message.content.k = "absent" THEN Raise("KeyError")
           ELSE IF choice.message.content.k # "str" THEN Raise("AttributeError")
           ELSE Ok(S(Strip(choice.message.content.s)))

\* line 152: data.get('choices', [{}])[0].get('text')
LegacyText(data) ==
  IF data.choices.k = "absent" THEN Ok(None)
  ELSE IF data.choices.k = "none" THEN Raise("TypeError")
  ELSE IF data.choices.items = <<>> THEN Raise("IndexError")
  ELSE IF data.choices.items[1].k # "dict" THEN Raise("AttributeError")
  ELSE Ok(data.choices.items[1].text)

\* lines 148-152
Narrative(data) ==
  LET first == Content(data)
  IN  IF first.exc \in {"KeyError", "IndexError", "AttributeError"}
      THEN LegacyText(data) ELSE first

\* api_analyze; contacted says whether the upstream API was called
api_analyze(has_key, payload, upstream) ==
  LET prompt == _build_prompt(payload.feed)
      narrative == Narrative(upstream.data)
  IN  IF ~has_key
      THEN [contacted |-> FALSE,
            response |-> ErrorResponse(500, Str1("Server missing OpenAI API key."))]
      ELSE IF payload.k = "list"
      THEN [contacted |-> FALSE, response |-> Unhandled("AttributeError")]
      ELSE IF payload.feed.k # "dict"
      THEN [contacted |-> FALSE,
            response |-> ErrorResponse(400, Str1("Feed payload is required for analysis."))]
      ELSE IF prompt.exc # "none"
      THEN [contacted |-> FALSE, response |-> Unhandled(prompt.exc)]
      ELSE IF upstream.k \in {"error", "status"}
      THEN [contacted |-> TRUE,
            response |-> ErrorResponse(502, Str1("Failed to contact OpenAI: "))]
      ELSE IF upstream.data.k = "notjson"
      THEN [contacted |-> TRUE, response |-> Unhandled("JSONDecodeError")]
      ELSE IF upstream.data.k = "list"
      THEN [contacted |-> TRUE, response |-> Unhandled("TypeError")]
      ELSE IF narrative.exc # "none"
      THEN [contacted |-> TRUE, response |-> Unhandled(narrative.exc)]
      ELSE IF ~Truthy(narrative.v)
      THEN [contacted |-> TRUE,
            response |-> ErrorResponse(502, Str1("OpenAI returned an empty response."))]
      ELSE [contacted |-> TRUE,
            response |-> [status |-> 200, kind |-> "narrative", error |-> <<>>,
                          body |-> [narrative |-> narrative.v,
                                    usage |-> upstream.data.usage]]]

----------------------------------------------------------------------------
(* Inputs *)

\* run lengths chosen around the 157 / 160 character limits
RunLens == {1, 2, SubtitleCut - 1, SubtitleMax + 1}

TextSyms == {"a", ".", " "}

\* the canonical strings of at most k runs over the symbols of syms
RECURSIVE Strs(_, _, _)
Strs(syms, lens, k) ==
  IF k = 0 THEN {<<>>}
  ELSE LET shorter == Strs(syms, lens, k - 1)
       IN  shorter \cup
           {Append(s, Run(c, n)) : s \in {x \in shorter : Len(x) = k - 1},
                                   c \in syms, n \in lens}

Canonical(s) == \A i \in 1..(Len(s) - 1) : s[i].c # s[i + 1].c

Texts == {s \in Strs(TextSyms, RunLens, MaxRuns) : Canonical(s)}

\* "a. a", " ", and a first sentence that ends in a period
ShortTexts ==
  {<<Run("a", 1), Run(".", 1), Run(" ", 1), Run("a", 1)>>, <<Run(" ", 2)>>,
   <<Run("a", 2)>>}

\* fragments with one text node, or markup only, or an image after a text
RichHtml ==
  {NoHtml, Html(<<>>), Html(<<ImgNode(Url("sm1"))>>)}
    \cup {Html(<<TextNode(s)>>) : s \in Texts \ {<<>>}}

SmallHtml ==
  {NoHtml, Html(<<ImgNode(None)>>)}
    \cup {Html(<<TextNode(s)>>) : s \in ShortTexts}
    \cup {Html(<<TextNode(<<Run("a", 1), Run(" ", 1)>>), TextNode(Str1("."))>>)}

\* entries whose subtitle sources vary: one of the three is rich (which says
\* which), the other two are drawn from the small set
SubtitleEntry(which, r, x, y) ==
  IF which = 1
  THEN [EmptyEntry EXCEPT !.subtitle = r, !.summary_detail = DetailDict(x), !.summary = y]
  ELSE IF which = 2
  THEN [EmptyEntry EXCEPT !.subtitle = IF x = NoHtml THEN NoHtml ELSE Html(<<>>),
                          !.summary_detail = DetailDict(r), !.summary = y]
  ELSE [EmptyEntry EXCEPT !.summary = r, !.description = x,
                          !.summary_detail = IF y = NoHtml THEN NoDetail
                                             ELSE DetailDict(NoHtml)]

----------------------------------------------------------------------------
(* Calls *)

\* no call in progress
Idle ==
  /\ op = "none"
  /\ arg = EmptyEntry
  /\ res = Returned(NoEntry)
  /\ parseCalls = 0
  /\ upstreamCalls = 0

Init == Idle

\* the caller takes the outcome; nothing is kept between calls
Return ==
  /\ op # "none"
  /\ op' = "none"
  /\ arg' = EmptyEntry
  /\ res' = Returned(NoEntry)
  /\ parseCalls' = 0
  /\ upstreamCalls' = 0

\* a call of _normalize_entry(entry)
Normalize(entry, name) ==
  /\ op' = name
  /\ arg' = entry
  /\ res' = _normalize_entry(entry)
  /\ UNCHANGED <<parseCalls, upstreamCalls>>

\* _normalize_entry on entries whose subtitle sources vary
NormalizeSubtitled ==
  /\ op = "none"
  /\ \E which \in 1..3, r \in RichHtml, x \in SmallHtml, y \in SmallHtml :
       Normalize(SubtitleEntry(which, r, x, y), "subtitle")

\* _normalize_entry on entries whose image sources vary
MediaLists(u1, u2, u3) ==
  {NoList, NotAList, List(<<>>), List(<<MediaItem(None, None)>>),
   List(<<NonDictItem, MediaItem(Url(u1), None)>>),
   List(<<MediaItem(S(<<>>), Url(u2)), MediaItem(Url(u3), None)>>)}

ImageType == S(<<Run("image", 1), Run("/png", 1)>>)
TextType == S(<<Run("text", 1), Run("/html", 1)>>)

LinkLists ==
  {NoList, List(<<>>),
   List(<<LinkItem(AbsentType, Url("ln0"))>>),
   List(<<LinkItem(TextType, Url("ln0")), LinkItem(ImageType, Url("ln1"))>>),
   List(<<NonDictLink, LinkItem(ImageType, None), LinkItem(ImageType, Url("ln2"))>>),
   List(<<LinkItem(ImageType, Url("ln1")), LinkItem(None, Url("ln0"))>>),
   List(<<LinkItem(None, Url("ln0"))>>)}

ImageDetails ==
  {NoDetail, DetailOther, DetailDict(NoHtml),
   DetailDict(Html(<<TextNode(Str1("a")), ImgNode(Url("sd1"))>>)),
   DetailDict(Html(<<ImgNode(None), ImgNode(Url("sd2"))>>))}

ImageSummaries == {NoHtml, Html(<<TextNode(Str1("a"))>>), Html(<<ImgNode(Url("sm1"))>>)}

ImageDescriptions == {NoHtml, Html(<<ImgNode(Url("ds1"))>>)}

NormalizeImaged ==
  /\ op = "none"
  /\ \E mc \in MediaLists("mc1", "mc2", "mc3"), mt \in MediaLists("mt1", "mt2", "mt3"),
        ln \in LinkLists, sd \in ImageDetails, sm \in ImageSummaries,
        ds \in ImageDescriptions :
       Normalize([EmptyEntry EXCEPT !.media_content = mc, !.media_thumbnail = mt,
                                    !.links = ln, !.summary_detail = sd,
                                    !.summary = sm, !.description = ds], "image")

\* _normalize_entry on entries whose parsed times vary
Years == {0, 1, 2023, 2024, 9999, 10000}
Months == {0, 1, 2, 7, 12, 13}
Days == {0, 1, 28, 29, 30, 31, 32}
Hours == {0, 10, 23, 24}
Minutes == {0, 30, 59, 60}
Seconds == {0, 59, 60}

Times ==
  {NoTime, BareTuple, WideYear}
    \cup {StructTime(y, mo, d, h, mi, sec) :
            y \in Years, mo \in Months, d \in Days, h \in Hours, mi \in Minutes,
            sec \in Seconds}

FewTimes == {NoTime, BareTuple, StructTime(2024, 7, 4, 11, 0, 0)}

NormalizeDated ==
  /\ op = "none"
  /\ \E t \in Times, u \in FewTimes, first \in BOOLEAN :
       Normalize([EmptyEntry EXCEPT !.published_parsed = IF first THEN t ELSE u,
                                    !.updated_parsed = IF first THEN u ELSE t], "dated")

\* _normalize_entry on entries whose link and source vary
LinkSyms == {"https:", "//", "news.example.com", "/x", "[", " "}

LinkTexts == {s \in Strs(LinkSyms, {1}, MaxRuns) : Canonical(s)}

Sources ==
  {NoSource, SourceOther, SourceDict(None), SourceDict(S(<<>>)), SourceDict(S(Str1(" "))),
   SourceDict(S(<<Run(" ", 1), Run("Example Source", 1), Run(" ", 2)>>))}

NormalizeSourced ==
  /\ op = "none"
  /\ \E l \in {None} \cup {S(s) : s \in LinkTexts}, src \in Sources :
       Normalize([EmptyEntry EXCEPT !.link = l, !.source = src], "sourced")

\* _normalize_entry on entries with fields missing or of the wrong shape
NormalizeAny ==
  /\ op = "none"
  /\ \E title \in {None, Other, S(<<Run(" ", 1), Run("Breaking Story", 1)>>)},
        l \in {None, Other, S(<<Run("https:", 1), Run("//", 1), Run("[", 1)>>),
               S(<<Run("https:", 1), Run("//", 1), Run("example.com", 1), Run("/x", 1)>>)},
        src \in {NoSource, SourceOther, SourceDict(Other), SourceDict(S(Str1("Example Source")))},
        t \in {NoTime, BareTuple, StructTime(2024, 7, 4, 10, 30, 0),
               StructTime(2024, 2, 30, 0, 0, 0), WideYear},
        ln \in {NoList, NotAList, List(<<LinkItem(None, Url("ln0"))>>),
                List(<<LinkItem(AbsentType, None)>>)},
        sm \in {NoHtml, Html(<<TextNode(<<Run("Summary", 1), Run(" ", 1)>>),
                              TextNode(Str1("content")), TextNode(Str1(".")),
                              ImgNode(Url("sm1"))>>)} :
       Normalize([EmptyEntry EXCEPT !.title = title, !.link = l, !.source = src,
                                    !.published_parsed = t, !.links = ln,
                                    !.summary = sm], "entry")

\* fetch_feed
Limits ==
  {NoLimit, StrLimit, NanLimit, InfLimit, NegInfLimit}
    \cup {IntLimit(n) : n \in {-1, 0, 1, 5, MAX_ITEMS, MAX_ITEMS + 1, 1000}}
    \cup {FloatLimit(x) : x \in {5, 25, 10 * MAX_ITEMS + 5}}

FeedSizes == (0..MaxSmall) \cup {5} \cup ((MAX_ITEMS - 1)..(MAX_ITEMS + MaxExtra))

FeedUrls == {None, S(<<Run(" ", 1), Run("https://example.com/feed", 1), Run(" ", 1)>>)}

Causes == {NoCause, Cause(Str1("boom")), Cause(<<>>)}

FeedMetas ==
  {NoFeedMeta, FeedMeta(S(Str1("Sample Feed")), S(Str1("https://example.com/feed")))}

ParsedFeeds ==
  {Parsed(bozo, cause, feed, n, bad) :
     bozo \in BOOLEAN, cause \in Causes, feed \in FeedMetas, n \in FeedSizes,
     bad \in {0, 2, MAX_ITEMS + 1}}

FetchFeed ==
  /\ op = "none"
  /\ \E url \in FeedUrls, limit \in Limits, parsed \in ParsedFeeds :
       /\ op' = "fetch_feed"
       /\ arg' = [url |-> url, limit |-> limit, parsed |-> parsed]
       /\ res' = fetch_feed(url, limit, parsed)
       /\ parseCalls' = 1
       /\ UNCHANGED upstreamCalls

SpecFetch == Init /\ [][FetchFeed \/ Return]_vars

\* POST /api/feed
Categories ==
  {None, S(<<>>), Other, S(Str1("business")), S(Str1("sports")),
   S(<<Run(" ", 1), Run("Business", 1), Run(" ", 2)>>), S(Str1("Science")),
   S(<<Run("top-stories", 1), Run(" ", 1), Run("business", 1)>>)}

RawLimits ==
  {NoRaw, ListRaw, NanRaw, InfRaw, IntRaw(0), IntRaw(1), IntRaw(1000), FloatRaw(25),
   FloatRaw(-5), StrRaw(Str1("5")), StrRaw(<<Run(" ", 1), Run("1", 1), Run("0", 2), Run(" ", 1)>>),
   StrRaw(<<Run("-", 1), Run("3", 1)>>), StrRaw(<<Run("2", 1), Run(".", 1), Run("5", 1)>>),
   StrRaw(Str1("abc")), StrRaw(<<>>)}

FeedRequests ==
  {NoPayload, ListPayload} \cup {FeedRequest(c, l) : c \in Categories, l \in RawLimits}

RepliedFeeds ==
  {Parsed(bozo, cause, feed, n, bad) :
     bozo \in BOOLEAN, cause \in {NoCause, Cause(Str1("boom"))}, feed \in FeedMetas,
     n \in {0, MaxSmall + 1}, bad \in {0, 2}}

ApiFeed ==
  /\ op = "none"
  /\ \E payload \in FeedRequests, parsed \in RepliedFeeds :
       \E r \in {api_feed(payload, parsed)} :
           /\ op' = "api_feed"
           /\ arg' = [payload |-> payload,
                      parsed |-> IF r.fetched THEN parsed
                                 ELSE Parsed(FALSE, NoCause, NoFeedMeta, 0, 0)]
           /\ res' = r.response
           /\ parseCalls' = IF r.fetched THEN 1 ELSE 0
           /\ UNCHANGED upstreamCalls

SpecFeedApi == Init /\ [][ApiFeed \/ Return]_vars

\* POST /api/analyze
AnalysisPayloads ==
  {[k |-> "none", feed |-> NoAnalysisFeed], [k |-> "list", feed |-> NoAnalysisFeed],
   [k |-> "dict", feed |-> NoAnalysisFeed], [k |-> "dict", feed |-> OtherAnalysisFeed]}
    \cup {[k |-> "dict", feed |-> AnalysisFeed(n, bad)] :
            n \in {0, MaxSmall, PromptEntries + MaxExtra},
            bad \in {0, 1, PromptEntries + 1}}

Contents ==
  {AbsentVal, None, Other, S(<<>>), S(Str1(" ")),
   S(<<Run(" ", 1), Run("Today", 1), Run(" ", 1)>>)}

LegacyTexts == {None, S(<<>>), S(Str1("Today"))}

Choices ==
  {NonDictChoice}
    \cup {Choice(m, text) :
            m \in {NoMessage, NullMessage} \cup {Message(c) : c \in Contents},
            text \in LegacyTexts}

ChoiceLists ==
  {AbsentChoices, NoList, List(<<>>)}
    \cup {List(<<c>>) : c \in Choices}
    \cup {List(<<c, Choice(Message(S(Str1("Second"))), None)>>) : c \in Choices}

Upstreams ==
  {TransportError, HttpError, Replied(NotJson), Replied(ArrayReply)}
    \cup {Replied(Reply(choices, usage)) : choices \in ChoiceLists, usage \in BOOLEAN}

ApiAnalyze ==
  /\ op = "none"
  /\ \E has_key \in BOOLEAN, payload \in AnalysisPayloads, upstream \in Upstreams :
       LET r == api_analyze(has_key, payload, upstream)
       IN  /\ op' = "api_analyze"
           /\ arg' = [has_key |-> has_key, payload |-> payload,
                      upstream |-> IF r.contacted THEN upstream ELSE TransportError]
           /\ res' = r.response
           /\ upstreamCalls' = IF r.contacted THEN 1 ELSE 0
           /\ UNCHANGED parseCalls

SpecAnalyze == Init /\ [][ApiAnalyze \/ Return]_vars

SpecSubtitle == Init /\ [][NormalizeSubtitled \/ Return]_vars
SpecImage == Init /\ [][NormalizeImaged \/ Return]_vars
SpecDate == Init /\ [][NormalizeDated \/ Return]_vars
SpecSource == Init /\ [][NormalizeSourced \/ Return]_vars
SpecEntry == Init /\ [][NormalizeAny \/ Return]_vars

----------------------------------------------------------------------------
(* Claims about the normaliser *)

Called(name) == op = name
Returns == res.exc = "none"

\* the text the subtitle is derived from: the stripped explicit subtitle when
\* the field is present and non-empty, else the stripped summary detail when
\* non-empty, else the plain-text summary
SubtitleText(entry) ==
  IF HtmlTruthy(entry.subtitle) THEN GetText(entry.subtitle.h)
  ELSE IF entry.summary_detail.k = "dict"
          /\ _extract_plain_text(entry.summary_detail.value) # <<>>
       THEN _extract_plain_text(entry.summary_detail.value)
       ELSE _extract_plain_text(SummaryHtml(entry))

SubtitleSentence(entry) == Strip(FirstSentence(SubtitleText(entry)))

\* C4: the subtitle of a normalised entry is null or at most 160 characters
\* long; a first sentence longer than 160 characters is cut to 157
\* characters, right-stripped and followed by the truncation marker.
C4_SubtitleAtMost160 ==
  Called("subtitle") /\ Returns =>
    /\ res.entry.subtitle.k = "none" \/ StrLen(res.entry.subtitle.s) <= SubtitleMax
    /\ StrLen(SubtitleSentence(arg)) > SubtitleMax =>
         res.entry.subtitle =
           S(Cat(RStrip(Take(SubtitleSentence(arg), SubtitleCut)), Marker))

\* C9: whichever of the three sources the text comes from, the subtitle is
\* its first sentence, trimmed, and null (never empty) when nothing is left.
C9_SubtitleIsFirstSentence ==
  Called("subtitle") /\ Returns /\ StrLen(SubtitleSentence(arg)) <= SubtitleMax =>
    res.entry.subtitle =
      IF SubtitleSentence(arg) = <<>> THEN None ELSE S(SubtitleSentence(arg))

\* the first link that is a mapping with an image MIME type and an href
RECURSIVE ImageLink(_)
ImageLink(items) ==
  IF items = <<>> THEN None
  ELSE LET link == Head(items)
       IN  IF /\ link.k = "dict"
              /\ link.type.k = "str"
              /\ StartsWith(link.type.s, "image")
              /\ Truthy(link.href)
           THEN link.href
           ELSE ImageLink(Tail(items))

\* the match of each tier, in priority order
ImageTiers(entry) ==
  <<MediaTier(entry.media_content), MediaTier(entry.media_thumbnail),
    IF entry.links.k = "list" THEN ImageLink(entry.links.items) ELSE None,
    DetailTier(entry), SummaryTier(entry)>>

FirstMatch(tiers) ==
  LET hits == {i \in 1..Len(tiers) : Truthy(tiers[i])}
  IN  IF hits = {} THEN None ELSE tiers[CHOOSE i \in hits : \A j \in hits : i <= j]

\* C5: the image is the match of the highest-priority tier that has one, and
\* null, not an error, when no tier matches.
C5_ImageIsFirstTierMatch ==
  Called("image") => Returns /\ res.entry.image = FirstMatch(ImageTiers(arg))

\* s is YYYY-MM-DDTHH:MM:SS for the components of t, without an offset
IsIsoOf(s, t) ==
  LET cs == Expand(s)
  IN  /\ Len(cs) = 19
      /\ cs[5] = "-" /\ cs[8] = "-" /\ cs[11] = "T" /\ cs[14] = ":" /\ cs[17] = ":"
      /\ \A i \in (1..19) \ {5, 8, 11, 14, 17} : \E v \in 0..9 : Digits[v + 1] = cs[i]
      /\ Number(cs, 1, 4) = t.y /\ Number(cs, 6, 7) = t.mo /\ Number(cs, 9, 10) = t.d
      /\ Number(cs, 12, 13) = t.h /\ Number(cs, 15, 16) = t.mi
      /\ Number(cs, 18, 19) = t.sec

\* the time C10 reads: the parsed-published time if present, else the
\* parsed-updated time
ChosenTime(entry) ==
  IF entry.published_parsed.k # "none" THEN entry.published_parsed
  ELSE entry.updated_parsed

\* C10: published is the ISO-8601 string of the chosen time's components when
\* they are valid, and null, with no error raised, when no time is present or
\* the conversion fails for any reason.
C10_PublishedIsIsoOrNull ==
  Called("dated") =>
    /\ Returns
    /\ IF ChosenTime(arg).k = "struct" /\ ValidDate(ChosenTime(arg))
       THEN res.entry.published.k = "str"
            /\ IsIsoOf(res.entry.published.s, ChosenTime(arg))
       ELSE res.entry.published = None

\* C3: _normalize_entry returns a FeedEntry for every raw entry and never
\* raises.
C3_NormalizeNeverRaises ==
  Called("entry") =>
    /\ Returns
    /\ DOMAIN res.entry =
         {"title", "summary", "link", "published", "source", "subtitle", "image"}

\* the source C6 describes: the trimmed title of a nested source mapping when
\* non-empty, else the network location of a link that parses to one, else null
ClaimedSource(entry) ==
  LET title == entry.source.title
      link == IF entry.link.k = "str" THEN Strip(entry.link.s) ELSE <<>>
      loc == Netloc(link)
  IN  IF entry.source.k = "dict" /\ title.k = "str" /\ Strip(title.s) # <<>>
      THEN S(Strip(title.s))
      ELSE IF link # <<>> /\ loc.exc = "none" /\ loc.v.s # <<>> THEN loc.v
      ELSE None

\* C6: source is the trimmed title of the nested source object when that is
\* non-empty, else the network location of the link when the link parses to a
\* URL that has one, else null; it is never the empty string.
C6_SourceAttribution ==
  Called("sourced") =>
    /\ Returns
    /\ res.entry.source = ClaimedSource(arg)
    /\ res.entry.source # S(<<>>)

----------------------------------------------------------------------------
(* Claims about fetch_feed and the HTTP adapter *)

\* t occurs in s
Contains(s, t) ==
  \/ t = <<>>
  \/ \E i \in 1..(Len(s) - Len(t) + 1) :
       /\ \A j \in 1..Len(t) : s[i + j - 1].c = t[j].c
       /\ \A j \in 2..(Len(t) - 1) : s[i + j - 1].n = t[j].n
       /\ IF Len(t) = 1 THEN s[i].n >= t[1].n
          ELSE s[i].n >= t[1].n /\ s[i + Len(t) - 1].n >= t[Len(t)].n

\* the parse signalled a malformed feed: the bozo flag with an underlying cause
Malformed(parsed) == parsed.bozo /\ parsed.cause.k = "exc"

\* the effective limit C1 gives: the cap for a missing, unusable or
\* non-positive limit, and min(limit, cap) entries otherwise
ClaimedLimit(limit) ==
  IF limit.k \in {"none", "str", "nan", "-inf"} THEN MAX_ITEMS
  ELSE IF limit.k = "inf" THEN MAX_ITEMS
  ELSE IF limit.t <= 0 THEN MAX_ITEMS
  ELSE Min(limit.t \div 10, MAX_ITEMS)

\* none of the first k raw entries is malformed
WellFormedUpTo(parsed, k) == parsed.bad = 0 \/ parsed.bad > Min(parsed.n, k)

\* C1: for every limit, fetch_feed returns the normalisations of the first
\* min(n, effective limit) raw entries, in feed order, where the effective
\* limit is 100 for a missing, unusable or non-positive limit and
\* min(limit, 100) otherwise.
C1_LimitClamping ==
  Called("fetch_feed") /\ ~Malformed(arg.parsed)
    /\ WellFormedUpTo(arg.parsed, ClaimedLimit(arg.limit)) =>
      /\ res.exc = "none"
      /\ Len(res.entries) = Min(arg.parsed.n, ClaimedLimit(arg.limit))
      /\ \A i \in 1..Len(res.entries) :
           res.entries[i] = _normalize_entry(RawEntry(arg.parsed, i)).entry

\* C2: a parse that signals a malformed feed makes fetch_feed fail with a
\* parse error whose message embeds the cause; any other parse makes it
\* return a FeedResult.
C2_ParseFailure ==
  Called("fetch_feed") =>
    IF Malformed(arg.parsed)
    THEN res.exc = "ValueError" /\ StartsWith(res.msg, "Unable to parse feed: ")
         /\ Contains(res.msg, arg.parsed.cause.msg)
    ELSE res.exc = "none"

\* the slugs of the curated feeds
Slugs == {Str1("top-stories"), Str1("business"), Str1("science")}

\* the request names a category, and it is none of the curated ones
NamesUnknownCategory(payload) ==
  /\ payload.k = "dict"
  /\ Truthy(payload.category)
  /\ Category(payload.category) \notin Slugs

\* C7: /api/feed answers an unknown category 400 without fetching, a parse
\* failure 400 with the cause in the error text, and gives the success
\* payload only after a successful fetch.
C7_FeedApiErrors ==
  Called("api_feed") =>
    /\ NamesUnknownCategory(arg.payload) =>
         res.status = 400 /\ res.kind = "error" /\ res.error # <<>> /\ parseCalls = 0
    /\ parseCalls = 1 /\ Malformed(arg.parsed) =>
         /\ res.status = 400 /\ res.kind = "error"
         /\ Contains(res.error, arg.parsed.cause.msg)
    /\ res.kind = "feed" =>
         /\ res.status = 200
         /\ parseCalls = 1
         /\ ~Malformed(arg.parsed)
         /\ WellFormedUpTo(arg.parsed, Len(res.body.entries))
         /\ Category(arg.payload.category) \in Slugs
         /\ DOMAIN res.body = {"feedTitle", "feedLink", "entries", "category",
                               "categoryName", "categoryDescription"}
         /\ res.body.category = Category(arg.payload.category)
         /\ \A i \in 1..Len(res.body.entries) :
              res.body.entries[i] = _normalize_entry(RawEntry(arg.parsed, i)).entry

\* a known category whose fetch failed on a malformed feed caused by "boom"
C7_Witness ==
  /\ Called("api_feed")
  /\ Category(arg.payload.category) = Str1("business")
  /\ parseCalls = 1
  /\ Malformed(arg.parsed)
  /\ arg.parsed.cause.msg = Str1("boom")
  /\ res.status = 400
  /\ Contains(res.error, Str1("boom"))

\* the text the upstream reply generated, if any: the content of the first
\* choice's message, or else its text
GeneratedText(data) ==
  IF data.k # "dict" \/ data.choices.k # "list" \/ data.choices.items = <<>> THEN None
  ELSE LET choice == data.choices.items[1]
       IN  IF choice.k # "dict" THEN None
           ELSE IF choice.message.k = "dict" /\ choice.message.content.k = "str"
                THEN S(Strip(choice.message.content.s))
                ELSE IF choice.text.k = "str" THEN choice.text ELSE None

\* C8: /api/analyze answers a missing credential 500, a feed that is no object
\* 400 (both without contacting the upstream API), an upstream failure 502, a
\* reply without generated text 502, and {narrative, usage} otherwise; no
\* reply leads to an unhandled error.
C8_AnalyzeOutcomes ==
  Called("api_analyze") =>
    /\ res.kind # "unhandled"
    /\ IF ~arg.has_key
       THEN res.status = 500 /\ upstreamCalls = 0
       ELSE IF arg.payload.k # "dict" \/ arg.payload.feed.k # "dict"
       THEN res.status = 400 /\ upstreamCalls = 0
       ELSE IF arg.upstream.k # "reply" THEN res.status = 502
       ELSE IF ~Truthy(GeneratedText(arg.upstream.data)) THEN res.status = 502
       ELSE /\ res.status = 200
            /\ res.kind = "narrative"
            /\ Truthy(res.body.narrative)

----------------------------------------------------------------------------
(* The whole program: any of its operations may be called next *)

Next ==
  \/ NormalizeAny
  \/ FetchFeed
  \/ ApiFeed
  \/ ApiAnalyze
  \/ Return

Spec == Init /\ [][Next]_vars

====
